---- MODULE Spec2Model ----
(***************************************************************************)
(* Model of the two scripts of the repository:                             *)
(*   excel_to_anki_append.py  (the importer)   -> specification Spec       *)
(*   youdao_to_excel.py       (the scraper)    -> specification SpecScraper*)
(* A string is a sequence of one-character strings, so that strip() and    *)
(* lower() are computed and not assumed.                                   *)
(***************************************************************************)
EXTENDS Integers, Sequences, FiniteSets, TLC

\* ------------------------------------------------------------- bounds ----
MaxRows == 3      \* rows in the spreadsheet
MaxRuns == 2      \* importer runs against the same spreadsheet and deck
MaxLines == 3     \* lines in words.txt

BatchBound == 2   \* notes per batch, standing for the 50 of the source

\* BATCH_SIZE = 50 in the source; scaled down to BatchBound so that a run of
\* MaxRows notes spans more than one batch.
BATCH_SIZE == BatchBound
\* RETRY = 2
RETRY == 2

\* ------------------------------------------------------------ strings ----
S(c1) == <<c1>>
S2(c1, c2) == <<c1, c2>>

\* the invisible characters removed by clean_invisibles
LRE == "u202a"
RLE == "u202b"
BOM == "ufeff"

\* str.lower() on one character
LowerChar(c) ==
  CASE c = "A" -> "a"
    [] c = "B" -> "b"
    [] c = "C" -> "c"
    [] c = "Y" -> "y"
    [] c = "E" -> "e"
    [] c = "S" -> "s"
    [] OTHER -> c

Lower(s) == [i \in 1..Len(s) |-> LowerChar(s[i])]

IsSpace(c) == c = " "

RECURSIVE LStrip(_)
LStrip(s) == IF s # <<>> /\ IsSpace(Head(s)) THEN LStrip(Tail(s)) ELSE s

RECURSIVE RStrip(_)
RStrip(s) ==
  IF s # <<>> /\ IsSpace(s[Len(s)]) THEN RStrip(SubSeq(s, 1, Len(s) - 1)) ELSE s

\* str.strip()
Strip(s) == RStrip(LStrip(s))

\* df["word"].astype(str).str.strip().str.lower()
Key(w) == Lower(Strip(w))

RECURSIVE SelectIdx(_, _, _)
\* the subsequence of s at the positions i (in order) where Keep(i)
SelectIdx(s, i, keep) ==
  IF i > Len(s) THEN <<>>
  ELSE (IF i \in keep THEN <<s[i]>> ELSE <<>>) \o SelectIdx(s, i + 1, keep)

\* ------------------------------------------------------ importer state ----
VARIABLES
  sheet,            \* the word column of the spreadsheet (row i -> word)
  deck,             \* Front values of the notes of the target deck (Anki's store)
  run,              \* which run of the importer this is
  pc,               \* position of main()
  before,
  df,               \* the rows still in the data frame, as row numbers
  removed_in_file,
  removed_in_deck,
  existing,
  words,
  notes,            \* note -> [Front, row]
  total,
  addable_mask,
  predicted_skips,
  can_failed,       \* the canAddNotes warning branch was taken
  go,
  pairs_add,        \* indices into notes
  pairs_skip,
  sent,             \* number of entries of pairs_add already handed to add_batch
  added_total,
  skipped_total,
  failed_total,
  requests,         \* canAddNotes / addNotes requests posted in this run
  outcome,          \* row -> the terminal classifications the run gave it
  last,             \* the last add_batch call: batch, answer, counter deltas
  prev              \* what the previous run did

impVars == <<sheet, deck, run, pc, before, df, removed_in_file, removed_in_deck,
             existing, words, notes, total, addable_mask, predicted_skips,
             can_failed, go, pairs_add, pairs_skip, sent, added_total,
             skipped_total, failed_total, requests, outcome, last, prev>>

\* ------------------------------------------------------- scraper state ----
VARIABLES
  lines,            \* words.txt, line by line
  spc,              \* position of the scraper's main()
  ln,               \* lines of the file already read by load_words
  seen_ci,
  loaded_words,     \* `words` of load_words / main
  wi,               \* index of the word being fetched
  attempt,          \* loop variable of fetch_html
  tries,            \* the GET requests made for the current word, with their answers
  html,
  rows,             \* (word, definition) rows appended
  fetch_failed      \* words whose fetch_html returned ""

scrVars == <<lines, spc, ln, seen_ci, loaded_words, wi, attempt, tries, html,
             rows, fetch_failed>>

vars == <<impVars, scrVars>>

\* ------------------------------------------------------ importer inputs ----
\* words found in the spreadsheet: plain, upper case with trailing blank,
\* and a cell that is blank after strip()
Words == {S("a"), S2("A", " "), S("b"), S("c"), S(" ")}
\* Front values already stored in the deck before the first run
DeckFronts == {S2("B", " ")}
\* what the operator types at the continue prompt
Answers == {S("y"), <<" ", "Y", "E", "S">>, S("n"), <<>>}

Sheets == UNION {[1..n -> Words] : n \in 0..MaxRows}

\* values AnkiConnect can put in a result list or in an error list
Items == {"int", "None", "str_duplicate", "str_other"}
\* values of an error list: messages, and a null
ErrItems == {"None", "str_duplicate", "str_other"}

Min(a, b) == IF a < b THEN a ELSE b

\* ----------------------------------------------------- importer helpers ----
\* df["_key"].duplicated(keep="first"): positions whose key occurred before
Duplicated(keys) ==
  {p \in 1..Len(keys) : \E q \in 1..(p - 1) : keys[q] = keys[p]}

\* a filter that matches no key
IsIn_None(keys, ex) == {}

\* df["_key"].isin(existing)
IsIn(keys, ex) == {p \in 1..Len(keys) : keys[p] \in ex}

\* the "_key" column of a data frame given as row numbers
KeyColumn(sh, d) == [p \in 1..Len(d) |-> Key(sh[d[p]])]

\* fronts that are trimmed but keep their case
get_existing_fronts_raw(dk) == {Strip(front) : front \in dk}

\* get_existing_fronts: front.strip().lower() of every note of the deck
get_existing_fronts(dk) == {Lower(Strip(front)) : front \in dk}

RECURSIVE BuildNotes_KeepEmpty(_, _)
\* a loop that builds a note for an empty word too
BuildNotes_KeepEmpty(sh, d) ==
  IF d = <<>> THEN <<>>
  ELSE <<[Front |-> Strip(sh[Head(d)]), row |-> Head(d)]>>
       \o BuildNotes_KeepEmpty(sh, Tail(d))

RECURSIVE BuildNotes(_, _)
\* the loop over df.iterrows(): rows with an empty word build no note
BuildNotes(sh, d) ==
  IF d = <<>> THEN <<>>
  ELSE LET word == Strip(sh[Head(d)])
       IN  (IF word = <<>> THEN <<>>
            ELSE <<[Front |-> word, row |-> Head(d)]>>)
           \o BuildNotes(sh, Tail(d))

\* a fallback that marks no note addable
FallbackMask_None(n) == [i \in 1..n |-> FALSE]

\* addable_mask = [True] * total, the fallback when canAddNotes answers an error
FallbackMask(n) == [i \in 1..n |-> TRUE]

\* a prompt that goes on unless the answer is 'n'
Accepted_ByDefault(g) == g # S("n")

\* go not in ("y", "yes") is False
Accepted(g) == g \in {S("y"), <<"y", "e", "s">>}

\* "duplicate" in str(msg).lower()
ContainsDuplicate(msg) == msg = "str_duplicate"

\* add_batch, the branch for an error that is a list
ErrorClass(msg) == IF ContainsDuplicate(msg) THEN "skipped" ELSE "failed"

\* a result list in which a null counts as a failure
ResultClass_NoneFails(rid) == IF rid = "int" THEN "added" ELSE "failed"

\* add_batch, the branch for a result list
ResultClass(rid) ==
  IF rid = "int" THEN "added"
  ELSE IF rid = "None" THEN "skipped"
  ELSE "failed"

\* chunked(seq, size): the slice that starts after `done` entries
Chunk(seq, done, size) == SubSeq(seq, done + 1, Min(done + size, Len(seq)))

CountOf(cls, c) == Cardinality({i \in DOMAIN cls : cls[i] = c})

\* answers of the target to addNotes for a batch of k notes
AddAnswers(k) ==
  {[kind |-> "raise"], [kind |-> "error_text"]}
  \cup {[kind |-> "error_list", items |-> e] : e \in [1..k -> ErrItems]}
  \cup {[kind |-> "result", items |-> r] : r \in [1..k -> Items]}

\* answers of the target to canAddNotes for n notes
CanAnswers(n) ==
  {[kind |-> "raise"], [kind |-> "error"]}
  \cup {[kind |-> "result", mask |-> m] : m \in [1..n -> BOOLEAN]}

NoLast == [batch |-> <<>>, res |-> [kind |-> "none"], a0 |-> 0, s0 |-> 0, f0 |-> 0]
NoPrev == [added |-> {}, all_added |-> FALSE]

\* the empty string as a page text
EmptyText == [empty |-> TRUE, phrs |-> <<>>, trans |-> <<>>, collins |-> <<>>]

\* the values main() starts from; sheet, deck, run and prev are set by the caller
RunStart ==
  /\ pc = "start"
  /\ before = 0
  /\ df = <<>>
  /\ removed_in_file = 0
  /\ removed_in_deck = 0
  /\ existing = {}
  /\ words = <<>>
  /\ notes = <<>>
  /\ total = 0
  /\ addable_mask = <<>>
  /\ predicted_skips = 0
  /\ can_failed = FALSE
  /\ go = <<>>
  /\ pairs_add = <<>>
  /\ pairs_skip = <<>>
  /\ sent = 0
  /\ added_total = 0
  /\ skipped_total = 0
  /\ failed_total = 0
  /\ requests = <<>>
  /\ last = NoLast

ScraperOff ==
  /\ lines = <<>>
  /\ spc = "off"
  /\ ln = 0
  /\ seen_ci = {}
  /\ loaded_words = <<>>
  /\ wi = 0
  /\ attempt = 0
  /\ tries = <<>>
  /\ html = EmptyText
  /\ rows = <<>>
  /\ fetch_failed = {}

Init ==
  /\ sheet \in Sheets
  /\ deck \in SUBSET DeckFronts
  /\ run = 1
  /\ prev = NoPrev
  /\ outcome = [i \in 1..Len(sheet) |-> {}]
  /\ RunStart
  /\ ScraperOff

\* ----------------------------------------------------- importer actions ----
\* main, step 1: read the sheet and drop the rows whose key occurred before
DedupInFile ==
  /\ pc = "start"
  /\ LET all == [i \in 1..Len(sheet) |-> i]
         dup == Duplicated(KeyColumn(sheet, all))
         kept == SelectIdx(all, 1, (1..Len(all)) \ dup)
     IN  /\ before' = Len(all)
         /\ df' = kept
         /\ removed_in_file' = Len(all) - Len(kept)
         /\ outcome' = [i \in 1..Len(sheet) |->
                          IF i \in dup THEN outcome[i] \cup {"file_dup"} ELSE outcome[i]]
  /\ pc' = "ensure"
  /\ UNCHANGED <<sheet, deck, run, removed_in_deck, existing, words, notes, total,
                 addable_mask, predicted_skips, can_failed, go, pairs_add,
                 pairs_skip, sent, added_total, skipped_total, failed_total,
                 requests, last, prev>>
  /\ UNCHANGED scrVars

\* ensure_deck and ensure_model; ok = FALSE is a RuntimeError or a failed POST
EnsureDeckModel ==
  /\ pc = "ensure"
  /\ \E ok \in BOOLEAN : pc' = IF ok THEN "filter" ELSE "aborted"
  /\ UNCHANGED <<sheet, deck, run, before, df, removed_in_file, removed_in_deck,
                 existing, words, notes, total, addable_mask, predicted_skips,
                 can_failed, go, pairs_add, pairs_skip, sent, added_total,
                 skipped_total, failed_total, requests, outcome, last, prev>>
  /\ UNCHANGED scrVars

\* main, step 2: drop the rows whose key is a Front of the deck
FilterExisting ==
  /\ pc = "filter"
  /\ \E ok \in BOOLEAN :
       IF ok
       THEN LET ex == get_existing_fronts(deck)
                hit == IsIn(KeyColumn(sheet, df), ex)
                kept == SelectIdx(df, 1, (1..Len(df)) \ hit)
            IN  /\ existing' = ex
                /\ df' = kept
                /\ removed_in_deck' = before - removed_in_file - Len(kept)
                /\ outcome' = [i \in 1..Len(sheet) |->
                                 IF \E p \in hit : df[p] = i
                                 THEN outcome[i] \cup {"deck_dup"} ELSE outcome[i]]
                /\ pc' = "build"
       ELSE /\ pc' = "aborted"
            /\ UNCHANGED <<existing, df, removed_in_deck, outcome>>
  /\ UNCHANGED <<sheet, deck, run, before, removed_in_file, words, notes, total,
                 addable_mask, predicted_skips, can_failed, go, pairs_add,
                 pairs_skip, sent, added_total, skipped_total, failed_total,
                 requests, last, prev>>
  /\ UNCHANGED scrVars

\* main: build the notes; with no note the run ends here
Build ==
  /\ pc = "build"
  /\ LET ns == BuildNotes(sheet, df)
     IN  /\ notes' = ns
         /\ words' = [i \in 1..Len(ns) |-> ns[i].Front]
         /\ pc' = IF ns = <<>> THEN "done_empty" ELSE "precheck"
  /\ UNCHANGED <<sheet, deck, run, before, df, removed_in_file, removed_in_deck,
                 existing, total, addable_mask, predicted_skips, can_failed, go,
                 pairs_add, pairs_skip, sent, added_total, skipped_total,
                 failed_total, requests, outcome, last, prev>>
  /\ UNCHANGED scrVars

\* main, step 3: canAddNotes, and the fallback when it answers with an error
PreCheck ==
  /\ pc = "precheck"
  /\ total' = Len(notes)
  /\ requests' = Append(requests, [action |-> "canAddNotes", notes |-> notes])
  /\ \E can \in CanAnswers(Len(notes)) :
       CASE can.kind = "raise" ->
              /\ pc' = "aborted"
              /\ UNCHANGED <<addable_mask, predicted_skips, can_failed>>
         [] can.kind = "error" ->
              /\ addable_mask' = FallbackMask(Len(notes))
              /\ predicted_skips' = 0
              /\ can_failed' = TRUE
              /\ pc' = "prompt"
         [] can.kind = "result" ->
              /\ addable_mask' = can.mask
              /\ predicted_skips' = CountOf(can.mask, FALSE)
              /\ can_failed' = FALSE
              /\ pc' = "prompt"
  /\ UNCHANGED <<sheet, deck, run, before, df, removed_in_file, removed_in_deck,
                 existing, words, notes, go, pairs_add, pairs_skip, sent,
                 added_total, skipped_total, failed_total, outcome, last, prev>>
  /\ UNCHANGED scrVars

\* main: the preview and the continue prompt
Prompt ==
  /\ pc = "prompt"
  /\ \E answer \in Answers :
       /\ go' = Lower(Strip(answer))
       /\ pc' = IF Accepted(go') THEN "partition" ELSE "cancelled"
  /\ UNCHANGED <<sheet, deck, run, before, df, removed_in_file, removed_in_deck,
                 existing, words, notes, total, addable_mask, predicted_skips,
                 can_failed, pairs_add, pairs_skip, sent, added_total,
                 skipped_total, failed_total, requests, outcome, last, prev>>
  /\ UNCHANGED scrVars

\* main: reset the counters, split by the mask, print the predicted skips
Partition ==
  /\ pc = "partition"
  /\ LET n == Min(Len(notes), Len(addable_mask))
         idx == [i \in 1..n |-> i]
         padd == SelectIdx(idx, 1, {i \in 1..n : addable_mask[i]})
         pskip == SelectIdx(idx, 1, {i \in 1..n : ~addable_mask[i]})
     IN  /\ pairs_add' = padd
         /\ pairs_skip' = pskip
         /\ outcome' = [i \in 1..Len(sheet) |->
                          IF \E p \in 1..Len(pskip) : notes[pskip[p]].row = i
                          THEN outcome[i] \cup {"skipped_rejected"} ELSE outcome[i]]
  /\ added_total' = 0
  /\ skipped_total' = 0
  /\ failed_total' = 0
  /\ sent' = 0
  /\ pc' = "submit"
  /\ UNCHANGED <<sheet, deck, run, before, df, removed_in_file, removed_in_deck,
                 existing, words, notes, total, addable_mask, predicted_skips,
                 can_failed, go, requests, last, prev>>
  /\ UNCHANGED scrVars

\* per-item classes of an addNotes answer for a batch of k notes (add_batch)
BatchClasses(res, k) ==
  CASE res.kind = "error_list" ->
         [i \in 1..Min(k, Len(res.items)) |-> ErrorClass(res.items[i])]
    [] res.kind = "result" ->
         [i \in 1..Min(k, Len(res.items)) |-> ResultClass(res.items[i])]
    [] res.kind = "error_text" -> [i \in 1..k |-> "failed"]

\* the label a row gets from the class of its note
SubmitLabel(c) ==
  CASE c = "added" -> "added"
    [] c = "skipped" -> "skipped_dup"
    [] c = "failed" -> "failed"

\* main's loop over chunked(pairs_add, BATCH_SIZE), one add_batch call
AddBatch ==
  /\ pc = "submit"
  /\ sent < Len(pairs_add)
  /\ LET batch == Chunk(pairs_add, sent, BATCH_SIZE)
         batch_notes == [i \in 1..Len(batch) |-> notes[batch[i]]]
     IN  /\ requests' = Append(requests, [action |-> "addNotes", notes |-> batch_notes])
         /\ \E res \in AddAnswers(Len(batch)) :
              /\ last' = [batch |-> batch, res |-> res, a0 |-> added_total,
                          s0 |-> skipped_total, f0 |-> failed_total]
              /\ IF res.kind = "raise"
                 THEN /\ pc' = "aborted"
                      /\ UNCHANGED <<sent, added_total, skipped_total, failed_total,
                                     outcome, deck>>
                 ELSE LET cls == BatchClasses(res, Len(batch))
                      IN  /\ added_total' = added_total + CountOf(cls, "added")
                          /\ skipped_total' = skipped_total + CountOf(cls, "skipped")
                          /\ failed_total' = failed_total + CountOf(cls, "failed")
                          /\ outcome' =
                               [r \in 1..Len(sheet) |->
                                  outcome[r] \cup
                                    {SubmitLabel(cls[i]) :
                                       i \in {j \in DOMAIN cls : batch_notes[j].row = r}}]
                          \* Anki stores each note it answers with an identifier
                          /\ deck' = IF res.kind = "result"
                                     THEN deck \cup {batch_notes[i].Front :
                                            i \in {j \in DOMAIN cls : res.items[j] = "int"}}
                                     ELSE deck
                          /\ sent' = sent + Len(batch)
                          /\ pc' = "submit"
  /\ UNCHANGED <<sheet, run, before, df, removed_in_file, removed_in_deck, existing,
                 words, notes, total, addable_mask, predicted_skips, can_failed, go,
                 pairs_add, pairs_skip, prev>>
  /\ UNCHANGED scrVars

\* main: the completion message after the last batch
Finish ==
  /\ pc = "submit"
  /\ sent >= Len(pairs_add)
  /\ pc' = "done"
  /\ UNCHANGED <<sheet, deck, run, before, df, removed_in_file, removed_in_deck,
                 existing, words, notes, total, addable_mask, predicted_skips,
                 can_failed, go, pairs_add, pairs_skip, sent, added_total,
                 skipped_total, failed_total, requests, outcome, last, prev>>
  /\ UNCHANGED scrVars

Ended == pc \in {"done", "done_empty", "cancelled", "aborted"}

\* after a run that reached its end, the operator starts the script again on
\* the same spreadsheet and deck
RunAgain ==
  /\ pc \in {"done", "done_empty"}
  /\ run < MaxRuns
  /\ run' = run + 1
  /\ LET added == {r \in 1..Len(sheet) : "added" \in outcome[r]}
     IN  prev' = [added |-> added,
                  all_added |-> added = {notes[i].row : i \in 1..Len(notes)}]
  /\ outcome' = [i \in 1..Len(sheet) |-> {}]
  /\ pc' = "start"
  /\ before' = 0
  /\ df' = <<>>
  /\ removed_in_file' = 0
  /\ removed_in_deck' = 0
  /\ existing' = {}
  /\ words' = <<>>
  /\ notes' = <<>>
  /\ total' = 0
  /\ addable_mask' = <<>>
  /\ predicted_skips' = 0
  /\ can_failed' = FALSE
  /\ go' = <<>>
  /\ pairs_add' = <<>>
  /\ pairs_skip' = <<>>
  /\ sent' = 0
  /\ added_total' = 0
  /\ skipped_total' = 0
  /\ failed_total' = 0
  /\ requests' = <<>>
  /\ last' = NoLast
  /\ UNCHANGED <<sheet, deck>>
  /\ UNCHANGED scrVars

Next ==
  \/ DedupInFile
  \/ EnsureDeckModel
  \/ FilterExisting
  \/ Build
  \/ PreCheck
  \/ Prompt
  \/ Partition
  \/ AddBatch
  \/ Finish

\* one run of the importer
Spec == Init /\ [][Next]_vars

NextTwice ==
  \/ DedupInFile
  \/ EnsureDeckModel
  \/ FilterExisting
  \/ Build
  \/ PreCheck
  \/ Prompt
  \/ Partition
  \/ AddBatch
  \/ Finish
  \/ RunAgain

\* runs of the importer in sequence against the same spreadsheet and deck
SpecTwice == Init /\ [][NextTwice]_vars

\* ------------------------------------------------ importer: properties ----
AddRequests == {i \in 1..Len(requests) : requests[i].action = "addNotes"}

RECURSIVE Submitted(_)
\* the notes of the addNotes requests, in the order they were posted
Submitted(reqs) ==
  IF reqs = <<>> THEN <<>>
  ELSE (IF Head(reqs).action = "addNotes" THEN Head(reqs).notes ELSE <<>>)
       \o Submitted(Tail(reqs))

\* step 2 of this run has filtered the data frame
Filtered ==
  \/ pc \in {"build", "precheck", "prompt", "partition", "submit", "done",
             "done_empty", "cancelled"}
  \/ pc = "aborted" /\ requests # <<>>

\* row r is the first row of the sheet with its key
FirstOfKey(r) ==
  \A q \in 1..(r - 1) : Lower(Strip(sheet[q])) # Lower(Strip(sheet[r]))

\* C1: a row whose trimmed, lower-cased word is in the set returned by
\* get_existing_fronts is in no canAddNotes or addNotes request, and
\* removed_in_deck counts the rows left by the intra-file deduplication whose
\* key is in that set.
C1_DeckDuplicatesNeverSubmitted ==
  Filtered =>
    /\ \A r \in 1..Len(sheet) :
         Lower(Strip(sheet[r])) \in existing =>
           \A i \in 1..Len(requests) :
             \A j \in 1..Len(requests[i].notes) : requests[i].notes[j].row # r
    /\ removed_in_deck =
         Cardinality({r \in 1..Len(sheet) :
                        FirstOfKey(r) /\ Lower(Strip(sheet[r])) \in existing})

C1_Witness ==
  /\ pc = "done"
  /\ removed_in_deck >= 1
  /\ AddRequests # {}
  /\ \E r \in 1..Len(sheet) : sheet[r] = S("b") /\ "deck_dup" \in outcome[r]

\* C2 as stated: the second of two completed runs adds no note and no row of
\* it reaches submission.
C2_Original ==
  (run = 2 /\ pc \in {"done", "done_empty"}) =>
    /\ added_total = 0
    /\ AddRequests = {}

\* this run follows a completed run in which every built note was added
PrevClean == run >= 2 /\ prev.all_added

\* C2 amended: after a completed run in which every built note was added, the
\* next run on the same spreadsheet and deck removes each of those rows in
\* step 3, builds no note, posts no addNotes request and adds nothing.
C2_SecondRunAddsNothing ==
  PrevClean =>
    /\ AddRequests = {}
    /\ added_total = 0
    /\ Filtered => \A r \in prev.added : outcome[r] = {"deck_dup"}
    /\ pc \notin {"start", "ensure", "filter", "build", "aborted", "done_empty"} => FALSE
    /\ pc = "done_empty" => notes = <<>>

C2_Witness ==
  /\ run = 2
  /\ prev.all_added
  /\ Cardinality(prev.added) >= 2
  /\ pc = "done_empty"
  /\ \E r \in prev.added : sheet[r] = S2("A", " ")

Terminal == {"file_dup", "deck_dup", "skipped_rejected", "added", "skipped_dup", "failed"}

\* C3 as stated: at the completion message every row has exactly one of the
\* six terminal classifications.
C3_Original ==
  pc = "done" => \A r \in 1..Len(sheet) : Cardinality(outcome[r] \cap Terminal) = 1

\* C3 amended: at the completion message every row with a non-empty trimmed
\* word has exactly one of the six classifications; a row whose trimmed word
\* is empty is an intra-file duplicate, a deck duplicate, or has none (it is
\* dropped when the notes are built).
C3_ExactlyOneOutcome ==
  pc = "done" =>
    \A r \in 1..Len(sheet) :
      IF Strip(sheet[r]) # <<>>
      THEN Cardinality(outcome[r] \cap Terminal) = 1
      ELSE outcome[r] \in {{}, {"file_dup"}, {"deck_dup"}}

C3_Witness ==
  /\ pc = "done"
  /\ \E r \in 1..Len(sheet) : Strip(sheet[r]) = <<>> /\ outcome[r] = {}
  /\ \E r \in 1..Len(sheet) : outcome[r] = {"skipped_rejected"}
  /\ \E r \in 1..Len(sheet) : outcome[r] = {"added"}

\* number of positions of items whose value is in vs
Occ(items, vs) == Cardinality({i \in 1..Len(items) : items[i] \in vs})

PerItem == last.res.kind \in {"error_list", "result"}

\* C4 as stated: an identifier counts as added, a null or a message with
\* 'duplicate' as skipped, anything else as failed, whichever list holds it.
C4_Original ==
  PerItem =>
    /\ added_total - last.a0 = Occ(last.res.items, {"int"})
    /\ skipped_total - last.s0 = Occ(last.res.items, {"None", "str_duplicate"})
    /\ failed_total - last.f0 = Occ(last.res.items, {"str_other"})

\* the label the i-th row of the last batch must carry
Expected(i) ==
  LET v == last.res.items[i]
  IN  IF last.res.kind = "result"
      THEN (IF v = "int" THEN "added" ELSE IF v = "None" THEN "skipped_dup" ELSE "failed")
      ELSE (IF v = "str_duplicate" THEN "skipped_dup" ELSE "failed")

\* C4 amended: in a result list an identifier counts as added, a null as
\* skipped and every other value (a message with 'duplicate' too) as failed;
\* in an error list a message with 'duplicate' counts as skipped and every
\* other value as failed.  One counter moves per item, and the i-th value is
\* attributed to the i-th word of the batch.
C4_PerItemClassification ==
  PerItem =>
    /\ Len(last.res.items) = Len(last.batch)
    /\ IF last.res.kind = "result"
       THEN /\ added_total - last.a0 = Occ(last.res.items, {"int"})
            /\ skipped_total - last.s0 = Occ(last.res.items, {"None"})
            /\ failed_total - last.f0 = Occ(last.res.items, {"str_duplicate", "str_other"})
       ELSE /\ added_total - last.a0 = 0
            /\ skipped_total - last.s0 = Occ(last.res.items, {"str_duplicate"})
            /\ failed_total - last.f0 = Occ(last.res.items, {"int", "None", "str_other"})
    /\ \A i \in 1..Len(last.batch) :
         /\ Expected(i) \in outcome[notes[last.batch[i]].row]
         /\ words[last.batch[i]] = Strip(sheet[notes[last.batch[i]].row])

C4_Witness ==
  /\ last.res.kind = "result"
  /\ Len(last.res.items) >= 2
  /\ last.res.items[1] = "int"
  /\ last.res.items[2] = "None"
  /\ added_total - last.a0 = 1
  /\ skipped_total - last.s0 = 1
  /\ Len(pairs_add) = 3

\* C5 as stated: when the addNotes call of a batch fails, its items are
\* counted as failed and the loop goes on, so that a confirmed run that has
\* ended has posted every addable note once, in order.
C5_FailedBatchContinues ==
  /\ last.res.kind \in {"raise", "error_text"} =>
       /\ failed_total - last.f0 = Len(last.batch)
       /\ pc \in {"submit", "done"}
  /\ (Ended /\ AddRequests # {}) =>
       Submitted(requests) = [i \in 1..Len(pairs_add) |-> notes[pairs_add[i]]]

\* C6: an addNotes request is posted only after canAddNotes and after the
\* operator answered 'y' or 'yes'; a run cancelled at the prompt has posted
\* none; nothing is stored in the deck before the confirmed submission.
C6_State ==
  /\ \A i \in AddRequests :
       /\ go \in {S("y"), <<"y", "e", "s">>}
       /\ pc \in {"submit", "done", "aborted"}
       /\ \E j \in 1..(i - 1) : requests[j].action = "canAddNotes"
  /\ pc \in {"cancelled", "prompt", "partition"} =>
       /\ AddRequests = {}
       /\ requests = <<[action |-> "canAddNotes", notes |-> notes]>>
  /\ pc = "cancelled" <=> (requests # <<>> /\ Ended /\ go \notin {S("y"), <<"y", "e", "s">>}
                            /\ last.res.kind = "none" /\ addable_mask # <<>>)

C6_ConfirmationGatesAddNotes ==
  /\ []C6_State
  /\ [][deck' # deck => (pc = "submit" /\ go \in {S("y"), <<"y", "e", "s">>})]_vars

C6_Witness ==
  /\ pc = "done"
  /\ go = <<"y", "e", "s">>
  /\ Len(requests) = 3
  /\ added_total >= 1

\* C9: when canAddNotes answers with an error the run goes on to the prompt
\* with every note marked addable and no predicted skip; once confirmed, all
\* notes are submitted and each row with a note is classified by the
\* addNotes answer alone.
C9_FallbackSubmitsAll ==
  can_failed =>
    /\ pc \in {"prompt", "partition", "submit", "done", "cancelled", "aborted"}
    /\ pc = "aborted" => last.res.kind = "raise"
    /\ predicted_skips = 0
    /\ Len(addable_mask) = total /\ total = Len(notes)
    /\ \A i \in 1..Len(addable_mask) : addable_mask[i]
    /\ pc \in {"submit", "done"} =>
         /\ pairs_skip = <<>>
         /\ [i \in 1..Len(pairs_add) |-> notes[pairs_add[i]]] = notes
    /\ pc = "done" =>
         /\ Submitted(requests) = notes
         /\ \A i \in 1..Len(notes) :
              /\ outcome[notes[i].row] \subseteq {"added", "skipped_dup", "failed"}
              /\ Cardinality(outcome[notes[i].row]) = 1

C9_Witness ==
  /\ can_failed
  /\ pc = "done"
  /\ Len(notes) = 3
  /\ added_total >= 1
  /\ skipped_total >= 1

\* C10 as stated: at the completion message the three counters add up to total.
C10_CountConservation ==
  pc = "done" => added_total + skipped_total + failed_total = total

\* ------------------------------------------------------- scraper inputs ----
\* lines of words.txt: blank, comments, the same word in two spellings and
\* behind a byte-order mark, another word
Lines == {<<>>, <<"#", "a">>, <<" ", "#">>, S("a"), S2("A", " "), S2(BOM, "a"), S("b")}

Files == UNION {[1..n -> Lines] : n \in 0..MaxLines}

\* pages of the dictionary, as the texts each selector strategy finds
Bodies ==
  {[empty |-> FALSE, phrs |-> <<"d1", "d1", "d2">>, trans |-> <<"d3">>, collins |-> <<>>],
   [empty |-> FALSE, phrs |-> <<>>, trans |-> <<>>, collins |-> <<>>]}

\* ------------------------------------------------------ scraper helpers ----
clean_invisibles(s) == SelectSeq(s, LAMBDA c : c \notin {LRE, RLE, BOM})

\* w.startswith("#")
StartsWithHash(w) == w # <<>> /\ Head(w) = "#"

\* a key that keeps the case of the word
LoadKey_Raw(w) == w

\* key = w.lower()
LoadKey(w) == Lower(w)

RECURSIVE Uniq(_, _)
\* the order-preserving removal of repeated texts in parse_definitions
Uniq(defs, seen) ==
  IF defs = <<>> THEN <<>>
  ELSE IF Head(defs) \in seen THEN Uniq(Tail(defs), seen)
  ELSE <<Head(defs)>> \o Uniq(Tail(defs), seen \cup {Head(defs)})

parse_definitions(h) ==
  IF h.empty THEN <<>>
  ELSE LET d1 == h.phrs
           d2 == IF d1 = <<>> THEN h.trans ELSE d1
           d3 == IF d2 = <<>> THEN SubSeq(h.collins, 1, Min(3, Len(h.collins))) ELSE d2
           uniq == Uniq(d3, {})
       IN  SubSeq(uniq, 1, Min(5, Len(uniq)))

\* "\n".join(defs): a definition is kept as its sequence of lines, "" is <<>>
get_youdao_definition(h) == parse_definitions(h)

\* a loop with one more turn
LastAttempt_Late(a) == a = RETRY + 1

\* range(RETRY + 1) has no value after `a`
LastAttempt(a) == a = RETRY

ImporterOff ==
  /\ sheet = <<>>
  /\ deck = {}
  /\ run = 0
  /\ prev = NoPrev
  /\ outcome = <<>>
  /\ pc = "off"
  /\ before = 0
  /\ df = <<>>
  /\ removed_in_file = 0
  /\ removed_in_deck = 0
  /\ existing = {}
  /\ words = <<>>
  /\ notes = <<>>
  /\ total = 0
  /\ addable_mask = <<>>
  /\ predicted_skips = 0
  /\ can_failed = FALSE
  /\ go = <<>>
  /\ pairs_add = <<>>
  /\ pairs_skip = <<>>
  /\ sent = 0
  /\ added_total = 0
  /\ skipped_total = 0
  /\ failed_total = 0
  /\ requests = <<>>
  /\ last = NoLast

InitScraper ==
  /\ lines \in Files
  /\ spc = "start"
  /\ ln = 0
  /\ seen_ci = {}
  /\ loaded_words = <<>>
  /\ wi = 0
  /\ attempt = 0
  /\ tries = <<>>
  /\ html = EmptyText
  /\ rows = <<>>
  /\ fetch_failed = {}
  /\ ImporterOff

\* ------------------------------------------------------ scraper actions ----
\* load_words: the path check
OpenWords ==
  /\ spc = "start"
  /\ \E exists \in BOOLEAN : spc' = IF exists THEN "load" ELSE "aborted"
  /\ UNCHANGED <<lines, ln, seen_ci, loaded_words, wi, attempt, tries, html, rows,
                 fetch_failed>>
  /\ UNCHANGED impVars

\* load_words: one turn of the loop over the lines
LoadLine ==
  /\ spc = "load"
  /\ ln < Len(lines)
  /\ ln' = ln + 1
  /\ LET w == Strip(clean_invisibles(lines[ln + 1]))
         key == LoadKey(w)
     IN  IF w = <<>> \/ StartsWithHash(w) \/ key \in seen_ci
         THEN UNCHANGED <<seen_ci, loaded_words>>
         ELSE /\ seen_ci' = seen_ci \cup {key}
              /\ loaded_words' = Append(loaded_words, w)
  /\ UNCHANGED <<lines, spc, wi, attempt, tries, html, rows, fetch_failed>>
  /\ UNCHANGED impVars

\* load_words returns; main starts its loop over the words
LoadDone ==
  /\ spc = "load"
  /\ ln = Len(lines)
  /\ wi' = 1
  /\ spc' = IF loaded_words = <<>> THEN "write" ELSE "fetch"
  /\ UNCHANGED <<lines, ln, seen_ci, loaded_words, attempt, tries, html, rows,
                 fetch_failed>>
  /\ UNCHANGED impVars

\* fetch_html: one turn of the retry loop, a GET and what follows its answer
Get ==
  /\ spc = "fetch"
  /\ \E ans \in {[kind |-> "status_other"], [kind |-> "exception"]}
                \cup {[kind |-> "status_200", body |-> b] : b \in Bodies} :
       /\ tries' = Append(tries, ans)
       /\ IF ans.kind = "status_200"
          THEN /\ html' = ans.body
               /\ spc' = "parse"
               /\ UNCHANGED <<attempt, fetch_failed>>
          ELSE IF LastAttempt(attempt)
          THEN /\ html' = EmptyText
               /\ spc' = "parse"
               /\ fetch_failed' = fetch_failed \cup {wi}
               /\ UNCHANGED attempt
          ELSE /\ attempt' = attempt + 1
               /\ UNCHANGED <<html, spc, fetch_failed>>
  /\ UNCHANGED <<lines, ln, seen_ci, loaded_words, wi, rows>>
  /\ UNCHANGED impVars

\* main: the definition of the word is parsed and its row appended
AppendRow ==
  /\ spc = "parse"
  /\ rows' = Append(rows, <<loaded_words[wi], get_youdao_definition(html)>>)
  /\ wi' = wi + 1
  /\ attempt' = 0
  /\ tries' = <<>>
  /\ html' = EmptyText
  /\ spc' = IF wi = Len(loaded_words) THEN "write" ELSE "fetch"
  /\ UNCHANGED <<lines, ln, seen_ci, loaded_words, fetch_failed>>
  /\ UNCHANGED impVars

\* main: the rows are written to youdao_defs.xlsx
WriteExcel ==
  /\ spc = "write"
  /\ spc' = "done"
  /\ UNCHANGED <<lines, ln, seen_ci, loaded_words, wi, attempt, tries, html, rows,
                 fetch_failed>>
  /\ UNCHANGED impVars

NextScraper ==
  \/ OpenWords
  \/ LoadLine
  \/ LoadDone
  \/ Get
  \/ AppendRow
  \/ WriteExcel

SpecScraper == InitScraper /\ [][NextScraper]_vars

\* ------------------------------------------------- scraper: properties ----
Failed(t) == t.kind \in {"status_other", "exception"}

\* C7: fetch_html makes at most 3 GETs for a word, makes none after a 200 and
\* returns that answer's body, and returns "" after 3 failed GETs; main has
\* appended one row per word handled, in the order of the word list, with an
\* empty definition for every word whose fetch failed.
C7_FetchBoundedAndRowPerWord ==
  /\ Len(tries) <= 3
  /\ \A i \in 1..(Len(tries) - 1) : Failed(tries[i])
  /\ spc = "fetch" => \A i \in 1..Len(tries) : Failed(tries[i])
  /\ spc = "parse" =>
       \/ /\ tries[Len(tries)].kind = "status_200"
          /\ html = tries[Len(tries)].body
          /\ wi \notin fetch_failed
       \/ /\ Len(tries) = 3
          /\ \A i \in 1..3 : Failed(tries[i])
          /\ html = EmptyText
          /\ wi \in fetch_failed
  /\ spc \in {"fetch", "parse"} => Len(rows) = wi - 1 /\ wi <= Len(loaded_words)
  /\ spc \in {"write", "done"} => Len(rows) = Len(loaded_words)
  /\ \A i \in 1..Len(rows) :
       /\ rows[i][1] = loaded_words[i]
       /\ i \in fetch_failed => rows[i][2] = <<>>

C7_Witness ==
  /\ spc = "done"
  /\ Len(rows) = 2
  /\ fetch_failed = {1}
  /\ rows[1][2] = <<>>
  /\ rows[2][2] = <<"d1", "d2">>

\* the cleaned, trimmed text of line i
Cleaned(i) == Strip(SelectSeq(lines[i], LAMBDA c : c \notin {LRE, RLE, BOM}))

\* the lines that are neither blank nor comments
WordLines == {i \in 1..Len(lines) : Cleaned(i) # <<>> /\ Head(Cleaned(i)) # "#"}

\* line i is the first word line with its lower-cased text
FirstLine(i) ==
  i \in WordLines /\ \A j \in WordLines : j < i => Lower(Cleaned(j)) # Lower(Cleaned(i))

\* C8: load_words returns, for each distinct lower-cased key of the word
\* lines, exactly one word, spelled as in the first line with that key, in
\* the order of those first lines.
C8_LoadWordsDedup ==
  spc \in {"fetch", "parse", "write", "done"} =>
    /\ Len(loaded_words) = Cardinality({Lower(Cleaned(i)) : i \in WordLines})
    /\ \A i \in WordLines :
         Cardinality({p \in 1..Len(loaded_words) :
                        Lower(loaded_words[p]) = Lower(Cleaned(i))}) = 1
    /\ \A p \in 1..Len(loaded_words) :
         \E i \in WordLines :
           /\ FirstLine(i)
           /\ loaded_words[p] = Cleaned(i)
           /\ p = Cardinality({j \in 1..i : FirstLine(j)})

C8_Witness ==
  /\ spc = "done"
  /\ lines = <<S2(BOM, "a"), S2("A", " "), S("b")>>
  /\ loaded_words = <<S("a"), S("b")>>

====
